---- MODULE Spec2Model ----
(***************************************************************************)
(* Model of the AIWalletManager contract (src/unnamed/part_000, lines      *)
(* 8-123): a custodial balance ledger with one owner and a set of          *)
(* authorized agents.                                                      *)
(*                                                                         *)
(* The contract runs on the EVM: a call either completes or reverts, and a *)
(* revert undoes every state change made inside the reverted call frame,   *)
(* including the value it moved and everything nested calls did.  The only *)
(* external call is the value transfer inside withdraw; while it runs the  *)
(* recipient's code may call back into the contract.  A withdraw is        *)
(* therefore two steps, withdraw (checks, decrement, start of the          *)
(* transfer) and TransferReturn (the transfer's outcome), with the call    *)
(* frames in between kept on `stack`.  msg.sender of a call is any         *)
(* non-null address; the values named "history" record what happened and   *)
(* are never read by an operation.                                         *)
(***************************************************************************)
EXTENDS Integers, Sequences, FiniteSets

\* ---------------------------------------------------------------- bounds
NumAccounts == 3     \* non-null addresses 1..NumAccounts
MaxAmount == 2       \* amounts and msg.value range over 0..MaxAmount
MaxCalls == 4        \* calls issued in one behaviour
MaxDepth == 2        \* nested withdraw frames (outer + re-entrant)

\* address(0)
Null == 0
Accounts == 1..NumAccounts
Addresses == {Null} \cup Accounts
Amounts == 0..MaxAmount
\* the deployer: msg.sender of the constructor
Deployer == 1

VARIABLES
    owner,              \* address public owner
    balances,           \* mapping(address => uint256) balances
    authorizedAgents,   \* mapping(address => bool) authorizedAgents
    events,             \* the event log, in emission order
    custody,            \* address(this).balance: value held by the contract
    received,           \* value delivered by the contract to each address
    deposited,          \* history: per account, value credited by deposits
    withdrawn,          \* history: per account, value of completed withdrawals
    completed,          \* history: number of completed withdraw calls
    formerOwners,       \* history: addresses that handed ownership over
    stack,              \* withdraw frames whose transfer is in progress
    last,               \* history: the call step taken last, with its pre-state
    calls,              \* number of calls issued so far
    txs,                \* withdraw transactions submitted to the chain
    wallet,             \* the address of the wallet the HTTP server signs with
    req                 \* the HTTP request being handled, and its handling

vars == <<owner, balances, authorizedAgents, events, custody, received,
          deposited, withdrawn, completed, formerOwners, stack, last, calls,
          txs, wallet, req>>

\* Everything a revert restores: storage, the log, the value moved, and
\* with them the history of what was committed.
Snapshot ==
    [owner |-> owner, balances |-> balances,
     authorizedAgents |-> authorizedAgents, events |-> events,
     custody |-> custody, received |-> received,
     deposited |-> deposited, withdrawn |-> withdrawn,
     completed |-> completed, formerOwners |-> formerOwners]

\* The ledger right after construction.
Fresh ==
    [owner |-> Deployer, balances |-> [a \in Addresses |-> 0],
     authorizedAgents |-> [a \in Addresses |-> FALSE], events |-> <<>>,
     custody |-> 0, received |-> [a \in Addresses |-> 0],
     deposited |-> [a \in Addresses |-> 0],
     withdrawn |-> [a \in Addresses |-> 0],
     completed |-> 0, formerOwners |-> {}]

\* ------------------------------------------------------------- modifiers
\* Variant: the owner check is missing.
onlyOwnerAnyone(sender) == TRUE

\* Variant: authorized agents pass the owner check too.
onlyOwnerOrAgent(sender) == sender = owner \/ authorizedAgents[sender]

\* require(msg.sender == owner, "Only owner can call this function")
onlyOwner(sender) == sender = owner

\* Variant: an agent once authorized stays authorized.
onlyAuthorizedOnceAuthorized(sender) ==
    \/ sender = owner
    \/ \E i \in 1..Len(events) :
          events[i].name = "AgentAuthorized" /\ events[i].account = sender

\* Variant: the owner passes only when listed in the agent table.
onlyAuthorizedAgentsOnly(sender) == authorizedAgents[sender]

\* Variant: an address that once was the owner keeps passing.
onlyAuthorizedFormerOwners(sender) ==
    sender = owner \/ authorizedAgents[sender] \/ sender \in formerOwners

\* Variant: the agent table is not consulted.
onlyAuthorizedOwnerOnly(sender) == sender = owner

\* require(msg.sender == owner || authorizedAgents[msg.sender], "Not authorized")
onlyAuthorized(sender) == sender = owner \/ authorizedAgents[sender]

\* -------------------------------------------------------------- results
\* The outcome of a call: "ok", or the revert reason of the require that
\* failed, in the order the requires are written.

\* Variant: an agent that is already authorized is refused.
authorizeAgentResultOnce(sender, agent) ==
    IF ~onlyOwner(sender) THEN "Only owner can call this function"
    ELSE IF ~(agent # Null) THEN "Invalid agent address"
    ELSE IF authorizedAgents[agent] THEN "Already authorized"
    ELSE "ok"

\* Variant: the agent is not checked against address(0).
authorizeAgentResultNoNullCheck(sender, agent) ==
    IF ~onlyOwner(sender) THEN "Only owner can call this function"
    ELSE "ok"

authorizeAgentResult(sender, agent) ==
    IF ~onlyOwner(sender) THEN "Only owner can call this function"
    ELSE IF ~(agent # Null) THEN "Invalid agent address"
    ELSE "ok"

\* Variant: only an agent the log shows as authorized can be deauthorized.
deauthorizeAgentResultLogged(sender, agent) ==
    IF ~onlyOwner(sender) THEN "Only owner can call this function"
    ELSE IF ~(\E i \in 1..Len(events) :
                 events[i].name = "AgentAuthorized" /\ events[i].account = agent)
         THEN "Agent was never authorized"
    ELSE "ok"

\* Variant: the agent is checked against address(0) as in authorizeAgent.
deauthorizeAgentResultNonNull(sender, agent) ==
    IF ~onlyOwner(sender) THEN "Only owner can call this function"
    ELSE IF ~(agent # Null) THEN "Invalid agent address"
    ELSE "ok"

deauthorizeAgentResult(sender, agent) ==
    IF ~onlyOwner(sender) THEN "Only owner can call this function"
    ELSE "ok"

\* Variant: deposit is gated like withdraw.
depositResultAuthorizedOnly(sender, account, value) ==
    IF ~onlyAuthorized(sender) THEN "Not authorized"
    ELSE IF ~(value > 0) THEN "Amount must be greater than 0"
    ELSE IF ~(account # Null) THEN "Invalid account address"
    ELSE "ok"

\* Variant: the account is not checked against address(0).
depositResultNoNullCheck(sender, account, value) ==
    IF ~(value > 0) THEN "Amount must be greater than 0"
    ELSE "ok"

\* deposit is payable and has no modifier: msg.sender is not inspected.
depositResult(sender, account, value) ==
    IF ~(value > 0) THEN "Amount must be greater than 0"
    ELSE IF ~(account # Null) THEN "Invalid account address"
    ELSE "ok"

\* Variant: the balance check is missing.
sufficientBalanceAlways(bal, amount) == TRUE

\* Variant: the balance check is off by one.
sufficientBalanceOffByOne(bal, amount) == bal + 1 >= amount

\* require(balances[account] >= amount, "Insufficient balance").  The
\* checked subtraction that follows cannot underflow once this holds.
sufficientBalance(bal, amount) == bal >= amount

\* Variant: the account is checked before the amount.
withdrawChecksAccountFirst(sender, account, amount) ==
    IF ~onlyAuthorized(sender) THEN "Not authorized"
    ELSE IF ~(account # Null) THEN "Invalid account address"
    ELSE IF ~(amount > 0) THEN "Amount must be greater than 0"
    ELSE IF ~sufficientBalance(balances[account], amount) THEN "Insufficient balance"
    ELSE "ok"

\* Variant: the account is not checked against address(0).
withdrawChecksNoNullCheck(sender, account, amount) ==
    IF ~onlyAuthorized(sender) THEN "Not authorized"
    ELSE IF ~(amount > 0) THEN "Amount must be greater than 0"
    ELSE IF ~sufficientBalance(balances[account], amount) THEN "Insufficient balance"
    ELSE "ok"

\* The requires of withdraw that precede the decrement.
withdrawChecks(sender, account, amount) ==
    IF ~onlyAuthorized(sender) THEN "Not authorized"
    ELSE IF ~(amount > 0) THEN "Amount must be greater than 0"
    ELSE IF ~(account # Null) THEN "Invalid account address"
    ELSE IF ~sufficientBalance(balances[account], amount) THEN "Insufficient balance"
    ELSE "ok"

\* Variant: the new owner is not checked against address(0).
transferOwnershipResultNoNullCheck(sender, newOwner) ==
    IF ~onlyOwner(sender) THEN "Only owner can call this function"
    ELSE "ok"

transferOwnershipResult(sender, newOwner) ==
    IF ~onlyOwner(sender) THEN "Only owner can call this function"
    ELSE IF ~(newOwner # Null) THEN "Invalid owner address"
    ELSE "ok"

\* --------------------------------------------------------------- effects
\* Variant: the credit is applied twice.
creditTwice(bal, account, value) == [bal EXCEPT ![account] = @ + value + value]

\* balances[account] += msg.value
credit(bal, account, value) == [bal EXCEPT ![account] = @ + value]

\* Variant: the decrement is taken from the owner's balance.
debitOwner(bal, account, amount) == [bal EXCEPT ![owner] = @ - amount]

\* Variant: the decrement is not made before the external call.
debitLater(bal, account, amount) == bal

\* balances[account] -= amount
debit(bal, account, amount) == [bal EXCEPT ![account] = @ - amount]

\* Variant: the value is sent a second time.
transferToTwice(rcv, account, amount) == [rcv EXCEPT ![account] = @ + amount + amount]

\* Variant: the value is sent to the owner instead of the account.
transferToOwner(rcv, account, amount) == [rcv EXCEPT ![owner] = @ + amount]

\* account.call{value: amount}(""): the value leaves the contract and
\* reaches `account`, the address the call is made on.
transferTo(rcv, account, amount) == [rcv EXCEPT ![account] = @ + amount]

\* Variant: the assignment is dropped.
setOwnerKeep(cur, newOwner) == cur

\* owner = newOwner
setOwner(cur, newOwner) == newOwner

\* Variant: a failed transfer keeps the agent table as nested calls left it.
restoreAllButAgents(pre, now) ==
    [pre EXCEPT !.authorizedAgents = now.authorizedAgents]

\* Variant: a failed transfer keeps the log as nested calls left it.
restoreAllButEvents(pre, now) == [pre EXCEPT !.events = now.events]

\* Variant: a failed transfer keeps the owner as nested calls left it.
restoreAllButOwner(pre, now) ==
    [pre EXCEPT !.owner = now.owner, !.formerOwners = now.formerOwners]

\* Variant: a failed transfer keeps the decrement.
restoreAllButBalances(pre, now) == [pre EXCEPT !.balances = now.balances]

\* A revert puts the ledger back to what it was when the frame was entered.
restore(pre, now) == pre

\* ---------------------------------------------------------------- views
\* function getBalance(address account) external view returns (uint256)
getBalance(account) == balances[account]

\* function isAuthorizedAgent(address agent) external view returns (bool)
isAuthorizedAgent(agent) == authorizedAgents[agent]

\* function getOwner() external view returns (address)
getOwner == owner

\* The record of a call step: what was called, by whom, with what outcome,
\* the ledger as it stood when the call was entered (pre) and right before
\* this step (before), and the number of frames below the call.
CallRecord(op, sender, target, amount, result, pre, depth) ==
    [op |-> op, sender |-> sender, target |-> target, amount |-> amount,
     result |-> result, pre |-> pre, before |-> Snapshot, depth |-> depth]

\* ------------------------------------------------------------------ Init
\* Variant: the constructor leaves owner at its default, address(0).
InitOwnerUnset ==
    /\ owner = Null
    /\ balances = [a \in Addresses |-> 0]
    /\ authorizedAgents = [a \in Addresses |-> FALSE]
    /\ events = <<>>
    /\ custody = 0
    /\ received = [a \in Addresses |-> 0]
    /\ deposited = [a \in Addresses |-> 0]
    /\ withdrawn = [a \in Addresses |-> 0]
    /\ completed = 0
    /\ formerOwners = {}
    /\ stack = <<>>
    /\ calls = 0
    /\ txs = <<>>
    /\ wallet = Null
    /\ req = <<>>
    /\ last = [op |-> "constructor", sender |-> Deployer, target |-> Null,
               amount |-> 0, result |-> "ok", pre |-> Fresh, before |-> Fresh,
               depth |-> 0]

\* constructor() { owner = msg.sender; }
Init ==
    /\ owner = Deployer
    /\ balances = [a \in Addresses |-> 0]
    /\ authorizedAgents = [a \in Addresses |-> FALSE]
    /\ events = <<>>
    /\ custody = 0
    /\ received = [a \in Addresses |-> 0]
    /\ deposited = [a \in Addresses |-> 0]
    /\ withdrawn = [a \in Addresses |-> 0]
    /\ completed = 0
    /\ formerOwners = {}
    /\ stack = <<>>
    /\ calls = 0
    /\ txs = <<>>
    /\ wallet = Null
    /\ req = <<>>
    /\ last = [op |-> "constructor", sender |-> Deployer, target |-> Null,
               amount |-> 0, result |-> "ok", pre |-> Fresh, before |-> Fresh,
               depth |-> 0]

\* A call can be issued by an externally owned account when no call is
\* running, or by code that the recipient of a transfer in progress runs.
\* Either way msg.sender is some non-null address.
CanCall == calls < MaxCalls

\* --------------------------------------------------------------- actions
authorizeAgent(sender, agent) ==
    LET r == authorizeAgentResult(sender, agent) IN
    /\ CanCall
    /\ calls' = calls + 1
    /\ last' = CallRecord("authorizeAgent", sender, agent, 0, r, Snapshot, Len(stack))
    /\ IF r = "ok"
       THEN /\ authorizedAgents' = [authorizedAgents EXCEPT ![agent] = TRUE]
            /\ events' = Append(events, [name |-> "AgentAuthorized", account |-> agent, amount |-> 0])
       ELSE UNCHANGED <<authorizedAgents, events>>
    /\ UNCHANGED <<owner, balances, custody, received, deposited, withdrawn,
                   completed, formerOwners, stack>>

deauthorizeAgent(sender, agent) ==
    LET r == deauthorizeAgentResult(sender, agent) IN
    /\ CanCall
    /\ calls' = calls + 1
    /\ last' = CallRecord("deauthorizeAgent", sender, agent, 0, r, Snapshot, Len(stack))
    /\ IF r = "ok"
       THEN /\ authorizedAgents' = [authorizedAgents EXCEPT ![agent] = FALSE]
            /\ events' = Append(events, [name |-> "AgentDeauthorized", account |-> agent, amount |-> 0])
       ELSE UNCHANGED <<authorizedAgents, events>>
    /\ UNCHANGED <<owner, balances, custody, received, deposited, withdrawn,
                   completed, formerOwners, stack>>

deposit(sender, account, value) ==
    LET r == depositResult(sender, account, value) IN
    /\ CanCall
    /\ calls' = calls + 1
    /\ last' = CallRecord("deposit", sender, account, value, r, Snapshot, Len(stack))
    /\ IF r = "ok"
       THEN /\ balances' = credit(balances, account, value)
            /\ custody' = custody + value
            /\ deposited' = [deposited EXCEPT ![account] = @ + value]
            /\ events' = Append(events, [name |-> "Deposit", account |-> account, amount |-> value])
       ELSE UNCHANGED <<balances, custody, deposited, events>>
    /\ UNCHANGED <<owner, authorizedAgents, received, withdrawn, completed,
                   formerOwners, stack>>

transferOwnership(sender, newOwner) ==
    LET r == transferOwnershipResult(sender, newOwner) IN
    /\ CanCall
    /\ calls' = calls + 1
    /\ last' = CallRecord("transferOwnership", sender, newOwner, 0, r, Snapshot, Len(stack))
    /\ IF r = "ok"
       THEN /\ owner' = setOwner(owner, newOwner)
            /\ formerOwners' = formerOwners \cup {sender}
       ELSE UNCHANGED <<owner, formerOwners>>
    /\ UNCHANGED <<balances, authorizedAgents, events, custody, received,
                   deposited, withdrawn, completed, stack>>

\* withdraw up to the external call: the requires, the decrement, and the
\* start of account.call{value: amount}("").  A failed require reverts the
\* call at once; otherwise the frame waits for the transfer's outcome.
withdraw(sender, account, amount) ==
    LET r == withdrawChecks(sender, account, amount) IN
    /\ CanCall
    /\ calls' = calls + 1
    /\ IF r = "ok"
       THEN /\ Len(stack) < MaxDepth
            /\ balances' = debit(balances, account, amount)
            /\ custody' = custody - amount
            /\ received' = transferTo(received, account, amount)
            /\ stack' = Append(stack, [sender |-> sender, account |-> account,
                                       amount |-> amount, pre |-> Snapshot])
            /\ last' = CallRecord("withdraw", sender, account, amount, "pending",
                                  Snapshot, Len(stack))
       ELSE /\ last' = CallRecord("withdraw", sender, account, amount, r,
                                  Snapshot, Len(stack))
            /\ UNCHANGED <<balances, custody, received, stack>>
    /\ UNCHANGED <<owner, authorizedAgents, events, deposited, withdrawn,
                   completed, formerOwners>>

\* The frame on top of the stack.
Top == stack[Len(stack)]
Pop == SubSeq(stack, 1, Len(stack) - 1)

\* withdraw from the return of the external call: require(success,
\* "Transfer failed"), then emit Withdrawal(account, amount).  A failed
\* transfer reverts the whole withdraw call to the state at its entry.
TransferReturn(success) ==
    /\ stack # <<>>
    /\ stack' = Pop
    /\ UNCHANGED calls
    /\ IF success
       THEN /\ events' = Append(events, [name |-> "Withdrawal", account |-> Top.account,
                                         amount |-> Top.amount])
            /\ withdrawn' = [withdrawn EXCEPT ![Top.account] = @ + Top.amount]
            /\ completed' = completed + 1
            /\ last' = CallRecord("withdraw", Top.sender, Top.account, Top.amount,
                                  "ok", Top.pre, Len(stack) - 1)
            /\ UNCHANGED <<owner, balances, authorizedAgents, custody, received,
                           deposited, formerOwners>>
       ELSE /\ LET s == restore(Top.pre, Snapshot) IN
                /\ owner' = s.owner
                /\ balances' = s.balances
                /\ authorizedAgents' = s.authorizedAgents
                /\ events' = s.events
                /\ custody' = s.custody
                /\ received' = s.received
                /\ deposited' = s.deposited
                /\ withdrawn' = s.withdrawn
                /\ completed' = s.completed
                /\ formerOwners' = s.formerOwners
            /\ last' = CallRecord("withdraw", Top.sender, Top.account, Top.amount,
                                  "Transfer failed", Top.pre, Len(stack) - 1)

\* The calls of one behaviour, made on the contract directly.
Next ==
    \/ \E s \in Accounts, a \in Addresses :
          authorizeAgent(s, a) /\ UNCHANGED <<txs, wallet, req>>
    \/ \E s \in Accounts, a \in Addresses :
          deauthorizeAgent(s, a) /\ UNCHANGED <<txs, wallet, req>>
    \/ \E s \in Accounts, a \in Addresses, v \in Amounts :
          deposit(s, a, v) /\ UNCHANGED <<txs, wallet, req>>
    \/ \E s \in Accounts, a \in Addresses, v \in Amounts :
          withdraw(s, a, v) /\ UNCHANGED <<txs, wallet, req>>
    \/ \E s \in Accounts, a \in Addresses :
          transferOwnership(s, a) /\ UNCHANGED <<txs, wallet, req>>
    \/ \E ok \in BOOLEAN :
          TransferReturn(ok) /\ UNCHANGED <<txs, wallet, req>>

Spec == Init /\ [][Next]_vars

\* The external call of a withdraw in progress returns, with either outcome.
TransferReturns ==
    \E ok \in BOOLEAN : TransferReturn(ok) /\ UNCHANGED <<txs, wallet, req>>

\* The calls of one behaviour, every external call of which returns.
SpecTransfersReturn == Spec /\ WF_vars(TransferReturns)

\* ------------------------------------------------- a ledger already in use
\* The ledger after the deployer has authorized address 2 as an agent and
\* address 3 has deposited MaxAmount to its own account: the state the
\* Withdrawals tests start from (part_000, lines 640-647).
Agent == 2
Holder == 3

AfterAuthorize ==
    [Fresh EXCEPT !.authorizedAgents = [a \in Addresses |-> a = Agent],
                  !.events = << [name |-> "AgentAuthorized", account |-> Agent,
                                 amount |-> 0] >>]

Funded ==
    [AfterAuthorize EXCEPT
        !.balances = [a \in Addresses |-> IF a = Holder THEN MaxAmount ELSE 0],
        !.deposited = [a \in Addresses |-> IF a = Holder THEN MaxAmount ELSE 0],
        !.custody = MaxAmount,
        !.events = Append(AfterAuthorize.events,
                          [name |-> "Deposit", account |-> Holder,
                           amount |-> MaxAmount])]

InitFunded ==
    /\ owner = Funded.owner
    /\ balances = Funded.balances
    /\ authorizedAgents = Funded.authorizedAgents
    /\ events = Funded.events
    /\ custody = Funded.custody
    /\ received = Funded.received
    /\ deposited = Funded.deposited
    /\ withdrawn = Funded.withdrawn
    /\ completed = Funded.completed
    /\ formerOwners = Funded.formerOwners
    /\ stack = <<>>
    /\ calls = 0
    /\ txs = <<>>
    /\ wallet = Null
    /\ req = <<>>
    /\ last = [op |-> "deposit", sender |-> Holder, target |-> Holder,
               amount |-> MaxAmount, result |-> "ok", pre |-> AfterAuthorize,
               before |-> AfterAuthorize, depth |-> 0]

\* The same calls, issued on the ledger already in use.
SpecFunded == InitFunded /\ [][Next]_vars

\* ------------------------------------------- two withdraws in flight at once
\* POST /api/withdraw submits a withdraw transaction (contract.withdraw)
\* and waits for it to be mined (tx.wait); nothing orders two requests that
\* are in flight together.  The chain executes submitted transactions one
\* at a time, in an order of its choosing; the recipients here run no code
\* of their own, so a transaction is the withdraw and its transfer.
TxIds == {1, 2}

\* Two withdraws against one account of the ledger in use, submitted and
\* not yet mined.
InitConcurrent ==
    /\ owner = Funded.owner
    /\ balances = Funded.balances
    /\ authorizedAgents = Funded.authorizedAgents
    /\ events = Funded.events
    /\ custody = Funded.custody
    /\ received = Funded.received
    /\ deposited = Funded.deposited
    /\ withdrawn = Funded.withdrawn
    /\ completed = Funded.completed
    /\ formerOwners = Funded.formerOwners
    /\ stack = <<>>
    /\ calls = 0
    /\ last = [op |-> "deposit", sender |-> Holder, target |-> Holder,
               amount |-> MaxAmount, result |-> "ok", pre |-> AfterAuthorize,
               before |-> AfterAuthorize, depth |-> 0]
    /\ wallet = Null
    /\ req = <<>>
    /\ \E account \in Addresses :
          txs \in [TxIds -> [sender : Accounts, account : {account},
                             amount : Amounts, status : {"submitted"},
                             result : {"none"}]]

\* The chain starts executing a submitted transaction when none is running.
Mine(i) ==
    /\ stack = <<>>
    /\ txs[i].status = "submitted"
    /\ withdraw(txs[i].sender, txs[i].account, txs[i].amount)
    /\ txs' = [txs EXCEPT ![i].status = IF last'.result = "pending"
                                         THEN "running" ELSE "mined",
                          ![i].result = last'.result]

\* The transfer of the running transaction returns; the receipt is known.
Settle(success) ==
    /\ \E i \in TxIds : txs[i].status = "running"
    /\ TransferReturn(success)
    /\ txs' = [i \in TxIds |->
                 IF txs[i].status = "running"
                 THEN [txs[i] EXCEPT !.status = "mined", !.result = last'.result]
                 ELSE txs[i]]

NextConcurrent ==
    \/ \E i \in TxIds : Mine(i) /\ UNCHANGED <<wallet, req>>
    \/ \E ok \in BOOLEAN : Settle(ok) /\ UNCHANGED <<wallet, req>>

SpecConcurrent == InitConcurrent /\ [][NextConcurrent]_vars

\* ------------------------------------------------------- the HTTP server
\* src/PolkadotMCP.js: an express application in front of the contract.
\* One request is followed from its arrival to its response.  The server
\* signs every transaction with one wallet; other parties transact with the
\* contract directly while a transaction of the server waits to be mined.
NumClients == 2     \* API clients
MaxForeign == 1     \* calls other parties make while the server's waits

Clients == 1..NumClients

\* const apiKey = process.env.API_KEY || "test-api-key"
apiKey == "test-api-key"
\* The x-api-key header: absent (""), some other key, or the configured one.
Keys == {"", "invalid-key", apiKey}

OpenEndpoints == {"health"}
ReadEndpoints == {"balance", "owner", "agent", "network"}
AmountEndpoints == {"deposit", "withdraw"}
AgentEndpoints == {"authorize-agent", "deauthorize-agent"}
WriteEndpoints == AmountEndpoints \cup AgentEndpoints
Endpoints == OpenEndpoints \cup ReadEndpoints \cup WriteEndpoints

\* Values a request carries: nothing, a number, a string of characters, or
\* a string that spells an address.
Undefined == [kind |-> "undefined", n |-> 0, chars |-> <<>>, addr |-> Null]
Num(n) == [kind |-> "number", n |-> n, chars |-> <<>>, addr |-> Null]
Str(chars) == [kind |-> "string", n |-> 0, chars |-> chars, addr |-> Null]
Hex(a) == [kind |-> "address", n |-> 0, chars |-> <<>>, addr |-> a]

AddressInputs ==
    {Undefined, Str(<<"x">>)} \cup {Hex(a) : a \in {Null, Agent, Holder}}
AmountInputs ==
    {Undefined, Num(0), Num(-1), Num(1),
     Str(<<"0">>), Str(<<"-", "1">>), Str(<<"1">>), Str(<<"2">>), Str(<<"a">>),
     Str(<<"1", "a">>)}

\* JavaScript's !v
Falsy(v) ==
    \/ v.kind = "undefined"
    \/ v.kind = "string" /\ v.chars = <<>>
    \/ v.kind = "number" /\ v.n = 0

\* const isValidAddress = (address) => ethers.utils.isAddress(address)
isValidAddress(v) == v.kind = "address"

Digits == <<"0", "1", "2", "3", "4", "5", "6", "7", "8", "9">>
IsDigit(c) == \E d \in 1..Len(Digits) : Digits[d] = c
DigitValue(c) == (CHOOSE d \in 1..Len(Digits) : Digits[d] = c) - 1

RECURSIVE NatChars(_)
NatChars(n) ==
    IF n < Len(Digits) THEN <<Digits[n + 1]>>
    ELSE NatChars(n \div Len(Digits)) \o <<Digits[(n % Len(Digits)) + 1]>>

\* String(v), amount.toString()
toString(v) ==
    IF v.kind = "number"
    THEN IF v.n < 0 THEN <<"-">> \o NatChars(-v.n) ELSE NatChars(v.n)
    ELSE v.chars

RECURSIVE LeadingDigits(_)
\* How many digits the characters start with.
LeadingDigits(chars) ==
    IF chars = <<>> \/ ~IsDigit(Head(chars)) THEN 0
    ELSE 1 + LeadingDigits(Tail(chars))

RECURSIVE ValueOf(_)
ValueOf(digits) ==
    IF digits = <<>> THEN 0
    ELSE ValueOf(SubSeq(digits, 1, Len(digits) - 1)) * Len(Digits)
         + DigitValue(digits[Len(digits)])

Negative(chars) == chars # <<>> /\ Head(chars) = "-"
Unsigned(chars) == IF Negative(chars) THEN Tail(chars) ELSE chars

\* parseFloat(v): the number the text starts with, whatever follows it;
\* NaN when it starts with none.  (Whole numbers only.)
parseFloat(v) ==
    LET chars == toString(v)
        k == LeadingDigits(Unsigned(chars))
        magnitude == ValueOf(SubSeq(Unsigned(chars), 1, k))
    IN IF k = 0 THEN [nan |-> TRUE, value |-> 0]
       ELSE [nan |-> FALSE,
             value |-> IF Negative(chars) THEN 0 - magnitude ELSE magnitude]

\* Wei per ether: 10^18 in ethers, scaled down to keep the ledger small.
WeiPerEther == 2

\* ethers.utils.parseEther(text): the whole text must be a number, else it
\* throws.
parseEther(chars) ==
    LET k == LeadingDigits(Unsigned(chars))
        magnitude == ValueOf(Unsigned(chars)) * WeiPerEther
    IN IF k = 0 \/ k # Len(Unsigned(chars)) THEN [ok |-> FALSE, wei |-> 0]
       ELSE [ok |-> TRUE,
             wei |-> IF Negative(chars) THEN 0 - magnitude ELSE magnitude]

\* Variant: any key that is present is accepted.
keyAcceptedWhenPresent(key) == ~(key = "")

\* authenticateApiKey: !requestApiKey || requestApiKey !== apiKey is refused.
keyAccepted(key) == ~(key = "" \/ key # apiKey)

\* Variant: a transaction is signed as the client that sent the request.
signerOfClient(w, client) == client

\* contract = new ethers.Contract(contractAddress, contractABI, wallet):
\* every call is made as the wallet.
signer(w, client) == w

\* The checks a POST handler makes before it calls the contract: the
\* message of the 400 it answers, "throw" when parseEther throws, or "ok".
validate(endpoint, address, amount) ==
    IF endpoint \in AmountEndpoints
    THEN IF Falsy(address) \/ Falsy(amount) THEN "Address and amount are required"
         ELSE IF ~isValidAddress(address) THEN "Invalid Ethereum address"
         ELSE IF parseFloat(amount).nan \/ parseFloat(amount).value <= 0
              THEN "Amount must be a positive number"
         ELSE IF ~parseEther(toString(amount)).ok THEN "throw"
         ELSE "ok"
    ELSE IF Falsy(address) THEN "Agent address is required"
         ELSE IF ~isValidAddress(address) THEN "Invalid Ethereum address"
         ELSE "ok"

\* res.status(status).json({ error }): the response, sent once.
Respond(r, status, error, code) ==
    [r EXCEPT !.stage = "responded", !.status = status, !.error = error,
              !.code = code, !.responses = @ + 1]

\* Variant: an error is logged and the request answered as a success.
handleErrorSwallow(r, code, message) == Respond(r, 200, "", code)

\* handleError(res, error): 400 for the two codes it knows, else 500.
handleError(r, code, message) ==
    IF code = "INSUFFICIENT_FUNDS"
    THEN Respond(r, 400, "Insufficient funds for this transaction", code)
    ELSE IF code = "UNPREDICTABLE_GAS_LIMIT"
    THEN Respond(r, 400, "Transaction would fail. Possible reasons: insufficient balance or unauthorized access", code)
    ELSE Respond(r, 500, message, code)

\* The role the contract finds a caller in; of the wallet, it is kept with
\* the request each time the contract is consulted for it.
resolveCaller(sender) ==
    IF sender = owner THEN "Owner"
    ELSE IF authorizedAgents[sender] THEN "Agent"
    ELSE "Unauthorized"

\* The amount of a validated request, in wei.
Wei(r) == IF r.endpoint \in AmountEndpoints
          THEN parseEther(toString(r.amount)).wei ELSE 0

\* What the call of a request would do if run now, its transfer succeeding
\* or not: the outcome of the gas estimation ethers makes before it sends.
simulate(r, sender, transferOk) ==
    CASE r.endpoint = "deposit" -> depositResult(sender, r.address.addr, Wei(r))
      [] r.endpoint = "withdraw" ->
            LET c == withdrawChecks(sender, r.address.addr, Wei(r))
            IN IF c # "ok" THEN c
               ELSE IF transferOk THEN "ok" ELSE "Transfer failed"
      [] r.endpoint = "authorize-agent" -> authorizeAgentResult(sender, r.address.addr)
      [] r.endpoint = "deauthorize-agent" -> deauthorizeAgentResult(sender, r.address.addr)

\* The reasons a submission fails before the contract is consulted.
SubmitFailures == {"INSUFFICIENT_FUNDS", "NETWORK_ERROR"}

ledgerVars == <<owner, balances, authorizedAgents, events, custody, received,
                deposited, withdrawn, completed, formerOwners, stack, last,
                calls>>

\* A request arrives at a server whose wallet is the owner, an agent, or
\* neither, in front of the ledger in use.
InitFacade ==
    /\ owner = Funded.owner
    /\ balances = Funded.balances
    /\ authorizedAgents = Funded.authorizedAgents
    /\ events = Funded.events
    /\ custody = Funded.custody
    /\ received = Funded.received
    /\ deposited = Funded.deposited
    /\ withdrawn = Funded.withdrawn
    /\ completed = Funded.completed
    /\ formerOwners = Funded.formerOwners
    /\ stack = <<>>
    /\ calls = 0
    /\ txs = <<>>
    /\ last = [op |-> "deposit", sender |-> Holder, target |-> Holder,
               amount |-> MaxAmount, result |-> "ok", pre |-> AfterAuthorize,
               before |-> AfterAuthorize, depth |-> 0]
    /\ wallet \in Accounts
    /\ \E client \in Clients, endpoint \in Endpoints, key \in Keys,
          address \in AddressInputs, amount \in AmountInputs :
          /\ endpoint \in {"health", "owner", "network"} => address = Undefined
          /\ endpoint \in {"balance", "agent"} => address.kind # "undefined"
          /\ endpoint \notin AmountEndpoints => amount = Undefined
          /\ req = [client |-> client, endpoint |-> endpoint, key |-> key,
                    address |-> address, amount |-> amount,
                    stage |-> "received", status |-> 0, error |-> "",
                    code |-> "none", calls |-> 0, responses |-> 0,
                    sender |-> Null, role |-> "none", core |-> "none"]

\* app.get('/api/health', (req, res) => ...): no middleware, no call.
health ==
    /\ req.stage = "received"
    /\ req.endpoint \in OpenEndpoints
    /\ req' = Respond(req, 200, "", "none")
    /\ UNCHANGED <<ledgerVars, txs, wallet>>

\* The middleware in front of every other route.
authenticateApiKey ==
    /\ req.stage = "received"
    /\ req.endpoint \notin OpenEndpoints
    /\ req' = IF keyAccepted(req.key)
              THEN [req EXCEPT !.stage = "authenticated"]
              ELSE Respond(req, 401, "Unauthorized: Invalid API key", "none")
    /\ UNCHANGED <<ledgerVars, txs, wallet>>

\* The GET handlers: balance and agent test the address, then each awaits
\* its calls (network makes three) and answers, or hands a failure to
\* handleError.
Read(ok, made) ==
    /\ req.stage = "authenticated"
    /\ req.endpoint \in ReadEndpoints
    /\ IF req.endpoint \in {"balance", "agent"} /\ ~isValidAddress(req.address)
       THEN /\ ok /\ made = 1
            /\ req' = Respond(req, 400, "Invalid Ethereum address", "none")
       ELSE /\ IF req.endpoint = "network" THEN ok => made = 3 ELSE made = 1
            /\ req' = IF ok
                      THEN Respond([req EXCEPT !.calls = made], 200, "", "none")
                      ELSE handleError([req EXCEPT !.calls = made],
                                       "NETWORK_ERROR", "could not detect network")
    /\ UNCHANGED <<ledgerVars, txs, wallet>>

\* The POST handlers up to the contract call.
Validate ==
    /\ req.stage = "authenticated"
    /\ req.endpoint \in WriteEndpoints
    /\ LET v == validate(req.endpoint, req.address, req.amount) IN
       req' = IF v = "ok" THEN [req EXCEPT !.stage = "validated"]
              ELSE IF v = "throw"
              THEN handleError(req, "INVALID_ARGUMENT", "invalid decimal value")
              ELSE Respond(req, 400, v, "none")
    /\ UNCHANGED <<ledgerVars, txs, wallet>>

\* const tx = await contract.<call>(...): ethers estimates the gas by
\* running the call against the chain as it stands, and throws
\* UNPREDICTABLE_GAS_LIMIT when the call would revert; otherwise the signed
\* transaction is sent.  The wallet or the provider may fail first.
Submit(failure, transferOk) ==
    /\ req.stage = "validated"
    /\ LET sender == signer(wallet, req.client)
           r == [req EXCEPT !.calls = @ + 1, !.sender = sender]
           sim == simulate(req, sender, transferOk)
       IN req' = IF failure \in SubmitFailures
                 THEN handleError(r, failure, "submission failed")
                 ELSE IF sim # "ok"
                 THEN handleError([r EXCEPT !.core = sim,
                                            !.role = resolveCaller(wallet)],
                                  "UNPREDICTABLE_GAS_LIMIT", "cannot estimate gas")
                 ELSE [r EXCEPT !.stage = "submitted"]
    /\ UNCHANGED <<ledgerVars, txs, wallet>>

\* The chain mines the transaction: the contract runs the call, msg.sender
\* the signer.
Execute ==
    /\ req.stage = "submitted"
    /\ stack = <<>>
    /\ \/ req.endpoint = "deposit" /\ deposit(req.sender, req.address.addr, Wei(req))
       \/ req.endpoint = "withdraw" /\ withdraw(req.sender, req.address.addr, Wei(req))
       \/ req.endpoint = "authorize-agent" /\ authorizeAgent(req.sender, req.address.addr)
       \/ req.endpoint = "deauthorize-agent" /\ deauthorizeAgent(req.sender, req.address.addr)
    /\ req' = [req EXCEPT !.stage = IF last'.result = "pending"
                                    THEN "running" ELSE "mined",
                          !.core = last'.result,
                          !.role = resolveCaller(wallet)]
    /\ UNCHANGED <<txs, wallet>>

\* The transfer of the server's withdraw returns.
Transferred(success) ==
    /\ req.stage = "running"
    /\ TransferReturn(success)
    /\ req' = [req EXCEPT !.stage = "mined", !.core = last'.result]
    /\ UNCHANGED <<txs, wallet>>

\* const receipt = await tx.wait(): resolves when the transaction was mined
\* and did not revert, throws CALL_EXCEPTION when it reverted, or fails with
\* the provider; then res.json({ success: true, ... }) or handleError.
Confirm(providerOk) ==
    /\ req.stage = "mined"
    /\ LET r == [req EXCEPT !.calls = @ + 1] IN
       req' = IF ~providerOk THEN handleError(r, "NETWORK_ERROR", "timeout")
              ELSE IF req.core = "ok" THEN Respond(r, 200, "", "none")
              ELSE handleError(r, "CALL_EXCEPTION", "transaction failed")
    /\ UNCHANGED <<ledgerVars, txs, wallet>>

\* While the server's transaction waits, somebody else's call is mined.
ForeignCall == req.stage = "submitted" /\ stack = <<>> /\ calls < MaxForeign

NextFacade ==
    \/ health
    \/ authenticateApiKey
    \/ \E ok \in BOOLEAN, made \in 1..3 : Read(ok, made)
    \/ Validate
    \/ \E failure \in SubmitFailures \cup {"none"}, ok \in BOOLEAN :
          Submit(failure, ok)
    \/ Execute
    \/ \E ok \in BOOLEAN : Transferred(ok)
    \/ \E ok \in BOOLEAN : Confirm(ok)
    \/ \E s \in Accounts, a \in Addresses :
          ForeignCall /\ authorizeAgent(s, a) /\ UNCHANGED <<txs, wallet, req>>
    \/ \E s \in Accounts, a \in Addresses :
          ForeignCall /\ deauthorizeAgent(s, a) /\ UNCHANGED <<txs, wallet, req>>
    \/ \E s \in Accounts, a \in Addresses, v \in Amounts :
          ForeignCall /\ deposit(s, a, v) /\ UNCHANGED <<txs, wallet, req>>
    \/ \E s \in Accounts, a \in Addresses, v \in Amounts :
          ForeignCall /\ withdraw(s, a, v) /\ UNCHANGED <<txs, wallet, req>>
    \/ \E s \in Accounts, a \in Addresses :
          ForeignCall /\ transferOwnership(s, a) /\ UNCHANGED <<txs, wallet, req>>
    \/ \E ok \in BOOLEAN :
          /\ req.stage = "submitted"
          /\ TransferReturn(ok)
          /\ UNCHANGED <<txs, wallet, req>>

SpecFacade == InitFacade /\ [][NextFacade]_vars

\* The steps of the handler and of the chain it waits for.  Every await of
\* the handler is taken to return: the wallet and the provider answer, and
\* a transaction that was sent is mined.
Progress ==
    \/ health
    \/ authenticateApiKey
    \/ \E ok \in BOOLEAN, made \in 1..3 : Read(ok, made)
    \/ Validate
    \/ \E failure \in SubmitFailures \cup {"none"}, ok \in BOOLEAN :
          Submit(failure, ok)
    \/ Execute
    \/ \E ok \in BOOLEAN : Transferred(ok)
    \/ \E ok \in BOOLEAN : Confirm(ok)
    \/ \E ok \in BOOLEAN :
          /\ req.stage = "submitted"
          /\ TransferReturn(ok)
          /\ UNCHANGED <<txs, wallet, req>>

SpecFacadeFair == SpecFacade /\ WF_vars(Progress)

\* ================================================================ claims
RECURSIVE SumOver(_, _)
SumOver(f, S) ==
    IF S = {} THEN 0
    ELSE LET a == CHOOSE x \in S : TRUE IN f[a] + SumOver(f, S \ {a})

Sum(f) == SumOver(f, Addresses)

RECURSIVE InFlightFrom(_)
\* The amounts of the withdraws whose transfer is in progress.
InFlightFrom(i) == IF i > Len(stack) THEN 0 ELSE stack[i].amount + InFlightFrom(i + 1)
InFlight == InFlightFrom(1)

\* The kinds of failure, by the revert reasons that signal them.
Unauthorized == {"Only owner can call this function", "Not authorized"}
InvalidArgument == {"Amount must be greater than 0", "Invalid account address",
                    "Invalid agent address", "Invalid owner address"}
InsufficientBalance == {"Insufficient balance"}
TransferFailed == {"Transfer failed"}

OwnerOnlyOps == {"authorizeAgent", "deauthorizeAgent", "transferOwnership"}

\* The ledger proper: storage, log and value, without the history.
SameLedger(s, t) ==
    /\ s.owner = t.owner
    /\ s.balances = t.balances
    /\ s.authorizedAgents = t.authorizedAgents
    /\ s.events = t.events
    /\ s.custody = t.custody
    /\ s.received = t.received

\* C1: Conservation.  Whenever no call is in progress, the sum of all
\* balances equals the value of the committed deposits minus the value of
\* the completed withdrawals; while transfers are in progress the sum is
\* short of that by exactly the amounts in flight, and so never exceeds it.
C1_Conservation ==
    /\ Sum(balances) + InFlight = Sum(deposited) - Sum(withdrawn)
    /\ Sum(balances) <= Sum(deposited) - Sum(withdrawn)
    /\ stack = <<>> => Sum(balances) = Sum(deposited) - Sum(withdrawn)

\* A withdraw has completed after deposits, some value is still recorded,
\* and no call is in progress.
C1_Witness ==
    /\ stack = <<>>
    /\ last.op = "withdraw" /\ last.result = "ok"
    /\ Sum(withdrawn) > 0
    /\ Sum(balances) > 0

\* C2: Non-negativity.  No balance is ever negative, and every withdraw
\* that got as far as the decrement had amount <= balances[account] when
\* it was entered.
C2_NonNegative ==
    /\ \A a \in Addresses : balances[a] >= 0
    /\ (last.op = "withdraw" /\ last.result \in {"pending", "ok"})
          => last.amount <= last.pre.balances[last.target]

\* A withdraw of the whole balance has completed, leaving exactly 0.
C2_Witness ==
    /\ last.op = "withdraw" /\ last.result = "ok"
    /\ last.amount = last.pre.balances[last.target]
    /\ balances[last.target] = 0

\* C3: Withdraw authorization gating.  A withdraw by a caller that is
\* neither the owner nor an authorized agent fails as Unauthorized with the
\* ledger untouched and no transfer started; a withdraw by the owner or an
\* authorized agent never fails as Unauthorized.
C3_WithdrawGating ==
    last.op = "withdraw" =>
        LET authorized == \/ last.sender = last.pre.owner
                          \/ last.pre.authorizedAgents[last.sender]
        IN /\ ~authorized =>
                /\ last.result = "Not authorized"
                /\ SameLedger(Snapshot, last.pre)
                /\ Len(stack) = last.depth
           /\ authorized => last.result \notin Unauthorized

\* An unauthorized caller was turned away from a withdraw that the balance
\* would have covered, and an authorized agent that is not the owner exists.
C3_Witness ==
    /\ last.op = "withdraw" /\ last.result = "Not authorized"
    /\ last.amount > 0
    /\ last.target # Null
    /\ balances[last.target] >= last.amount
    /\ \E a \in Accounts : authorizedAgents[a] /\ a # owner

\* C4: Owner-only gating.  authorizeAgent, deauthorizeAgent and
\* transferOwnership by any caller other than the current owner, authorized
\* agents included, fail as Unauthorized and change nothing.
C4_OwnerOnlyGating ==
    (last.op \in OwnerOnlyOps /\ last.sender # last.pre.owner) =>
        /\ last.result = "Only owner can call this function"
        /\ SameLedger(Snapshot, last.pre)

\* An authorized agent that is not the owner tried to take ownership.
C4_Witness ==
    /\ last.op = "transferOwnership"
    /\ last.sender # last.pre.owner
    /\ last.pre.authorizedAgents[last.sender]
    /\ last.target = last.sender

\* C5: Atomic rollback.  After a withdraw whose transfer failed, the
\* account's balance, and every other balance, is what it was before the
\* call, no value has left custody and none has reached any address.
C5_AtomicRollback ==
    (last.op = "withdraw" /\ last.result \in TransferFailed) =>
        /\ balances[last.target] = last.pre.balances[last.target]
        /\ balances = last.pre.balances
        /\ custody = last.pre.custody
        /\ received = last.pre.received

\* A transfer failed after the decrement had been made.
C5_Witness ==
    /\ last.op = "withdraw" /\ last.result \in TransferFailed
    /\ last.before.balances[last.target]
         = last.pre.balances[last.target] - last.amount
    /\ balances[last.target] > 0

\* Value that reached the account of frame f, and value deposited to it,
\* since the frame's withdraw was entered.
PaidDuring(f) == received[f.account] - f.pre.received[f.account]
DepositedDuring(f) == deposited[f.account] - f.pre.deposited[f.account]

\* The withdraws whose payout is being accounted for: those in progress,
\* and the one that has just completed.
OpenFrames ==
    {stack[i] : i \in 1..Len(stack)} \cup
    (IF last.op = "withdraw" /\ last.result = "ok"
     THEN {[sender |-> last.sender, account |-> last.target,
            amount |-> last.amount, pre |-> last.pre]}
     ELSE {})

\* C6 as stated: across an outer withdraw and everything nested in its
\* transfer, the value paid out to the account never exceeds the account's
\* balance as it stood before the outer call.
C6_PaidWithinEntryBalance ==
    \A f \in OpenFrames : PaidDuring(f) <= f.pre.balances[f.account]

\* C6, amended: when the transfer starts the balance already carries the
\* decrement; during the transfer the account's balance is always its
\* balance at entry, plus what was deposited to it since, minus everything
\* paid out to it since (there is no stale balance to withdraw against);
\* so the value paid out never exceeds the balance at entry plus the
\* value deposited to the account during the transfer.
C6_ChecksEffectsInteractions ==
    /\ (last.op = "withdraw" /\ last.result = "pending") =>
          /\ stack # <<>>
          /\ balances[last.target] = last.pre.balances[last.target] - last.amount
    /\ \A f \in OpenFrames :
          /\ balances[f.account]
                = f.pre.balances[f.account] + DepositedDuring(f) - PaidDuring(f)
          /\ PaidDuring(f) <= f.pre.balances[f.account] + DepositedDuring(f)

\* A withdraw re-entered from the transfer of a withdraw on the same
\* account has taken what the outer one left, and nothing was deposited.
C6_Witness ==
    /\ Len(stack) = 2
    /\ stack[1].account = stack[2].account
    /\ stack[1].amount < stack[1].pre.balances[stack[1].account]
    /\ DepositedDuring(stack[1]) = 0
    /\ PaidDuring(stack[1]) = stack[1].pre.balances[stack[1].account]

\* C7 as stated: after a transfer of ownership the new owner is the
\* address given, every later owner-only call by an address that handed
\* ownership over fails as Unauthorized, and the owner's authorizeAgent
\* succeeds for a non-null agent.
C7_FormerOwnerAlwaysRejected ==
    /\ (last.op = "transferOwnership" /\ last.sender = last.pre.owner
          /\ last.target # Null) => owner = last.target
    /\ (last.op \in OwnerOnlyOps /\ last.sender \in last.pre.formerOwners)
          => last.result \in Unauthorized
    /\ (last.op = "authorizeAgent" /\ last.sender = last.pre.owner
          /\ last.target # Null)
          => (last.result = "ok" /\ authorizedAgents[last.target])

\* C7, amended: a former owner's owner-only calls fail as Unauthorized for
\* as long as it is not the owner again.
C7_OwnershipTransfer ==
    /\ (last.op = "transferOwnership" /\ last.sender = last.pre.owner
          /\ last.target # Null)
          => (last.result = "ok" /\ owner = last.target)
    /\ (last.op \in OwnerOnlyOps /\ last.sender \in last.pre.formerOwners
          /\ last.sender # last.pre.owner)
          => (last.result \in Unauthorized /\ owner = last.pre.owner
              /\ authorizedAgents = last.pre.authorizedAgents)
    /\ (last.op = "authorizeAgent" /\ last.sender = last.pre.owner
          /\ last.target # Null)
          => (last.result = "ok" /\ authorizedAgents[last.target])

\* The deployer handed ownership to another address, which has authorized
\* an agent; the deployer's own authorizeAgent was then turned away.
C7_Witness ==
    /\ last.op = "authorizeAgent"
    /\ last.sender = Deployer
    /\ Deployer \in last.pre.formerOwners
    /\ owner # Deployer
    /\ last.result \in Unauthorized
    /\ \E x \in Accounts : authorizedAgents[x]
    /\ Len(events) = 1 /\ events[1].name = "AgentAuthorized"

\* C8: Successful withdraw effect.  A withdraw by an authorized caller for
\* a non-null account with 0 < amount <= balances[account] passes every
\* check; it takes exactly amount off balances[account] and no other
\* balance, and sends exactly amount out of custody to the account itself
\* and to no other address; the return of a successful transfer changes no
\* balance and moves no value, and appends Withdrawal(account, amount).
C8_WithdrawEffect ==
    last.op = "withdraw" =>
        /\ ( /\ (last.sender = last.pre.owner \/ last.pre.authorizedAgents[last.sender])
             /\ last.target # Null
             /\ 0 < last.amount
             /\ last.amount <= last.pre.balances[last.target] )
           => last.result \in {"pending", "ok", "Transfer failed"}
        /\ last.result = "pending" =>
             /\ balances = [last.pre.balances EXCEPT ![last.target] = @ - last.amount]
             /\ received = [last.pre.received EXCEPT ![last.target] = @ + last.amount]
             /\ custody = last.pre.custody - last.amount
        /\ last.result = "ok" =>
             /\ balances = last.before.balances
             /\ received = last.before.received
             /\ custody = last.before.custody
             /\ events = Append(last.before.events,
                                [name |-> "Withdrawal", account |-> last.target,
                                 amount |-> last.amount])
             /\ withdrawn[last.target] = last.before.withdrawn[last.target] + last.amount
             /\ received[last.target] - last.pre.received[last.target]
                  = withdrawn[last.target] - last.pre.withdrawn[last.target]

\* The owner has withdrawn part of another account's balance, nothing ran
\* during the transfer, and a third account holds a balance.
C8_Witness ==
    /\ last.op = "withdraw" /\ last.result = "ok"
    /\ last.sender # last.target
    /\ 0 < balances[last.target]
    /\ balances = [last.pre.balances EXCEPT ![last.target] = @ - last.amount]
    /\ received = [last.pre.received EXCEPT ![last.target] = @ + last.amount]
    /\ \E a \in Accounts \ {last.target} : balances[a] > 0

\* C9: Deposit effect.  deposit(account, amount) with a non-null account
\* and amount > 0 succeeds whoever calls it, adds exactly amount to
\* balances[account], changes no other balance, nor the owner, nor the
\* agent set, and appends exactly one Deposit(account, amount).
C9_DepositEffect ==
    (last.op = "deposit" /\ last.target # Null /\ last.amount > 0) =>
        /\ last.result = "ok"
        /\ balances = [last.pre.balances EXCEPT ![last.target] = @ + last.amount]
        /\ owner = last.pre.owner
        /\ authorizedAgents = last.pre.authorizedAgents
        /\ events = Append(last.pre.events,
                           [name |-> "Deposit", account |-> last.target,
                            amount |-> last.amount])

\* A caller that is neither owner nor agent has deposited to an account
\* other than its own, which already held a balance.
C9_Witness ==
    /\ last.op = "deposit" /\ last.result = "ok"
    /\ last.sender # owner /\ ~authorizedAgents[last.sender]
    /\ last.sender # last.target
    /\ last.pre.balances[last.target] > 0
    /\ balances[last.target] = last.pre.balances[last.target] + last.amount

\* C10: Deposit rejection.  deposit with the null account or amount <= 0
\* fails as InvalidArgument, and then no balance changes and no Deposit
\* record is added (nothing of the ledger changes).
C10_DepositRejection ==
    (last.op = "deposit" /\ (last.target = Null \/ last.amount <= 0)) =>
        /\ last.result \in InvalidArgument
        /\ balances = last.pre.balances
        /\ events = last.pre.events
        /\ SameLedger(Snapshot, last.pre)

\* A deposit of a positive amount to the null account was rejected while
\* the ledger held balances.
C10_Witness ==
    /\ last.op = "deposit"
    /\ last.target = Null /\ last.amount > 0
    /\ last.result = "Invalid account address"
    /\ Sum(balances) > 0

\* The caller recorded in `last` was owner or agent when the call was entered.
LastAuthorized ==
    \/ last.sender = last.pre.owner
    \/ last.pre.authorizedAgents[last.sender]

\* The call recorded in `last` failed.
LastFailed ==
    last.result \in (Unauthorized \cup InvalidArgument \cup InsufficientBalance
                     \cup TransferFailed)

Event(name, account, amount) == [name |-> name, account |-> account, amount |-> amount]

\* C11: Insufficient balance.  A withdraw by an authorized caller for a
\* non-null account with amount > balances[account] fails as
\* InsufficientBalance; no transfer is started, no Withdrawal is recorded
\* and the balance (with the rest of the ledger) is unchanged.
C11_InsufficientBalance ==
    (last.op = "withdraw" /\ LastAuthorized /\ last.target # Null
       /\ last.amount > last.pre.balances[last.target]) =>
        /\ last.result = "Insufficient balance"
        /\ Len(stack) = last.depth
        /\ received = last.pre.received /\ custody = last.pre.custody
        /\ events = last.pre.events
        /\ balances[last.target] = last.pre.balances[last.target]
        /\ SameLedger(Snapshot, last.pre)

\* The owner asked for more than the positive balance of an account.
C11_Witness ==
    /\ last.op = "withdraw" /\ last.result \in InsufficientBalance
    /\ last.sender = owner
    /\ 0 < balances[last.target]
    /\ balances[last.target] < last.amount

\* C12: Withdraw argument validation.  A withdraw by an authorized caller
\* with amount 0 or with the null account fails as InvalidArgument, with
\* balances untouched and no transfer started.
C12_WithdrawValidation ==
    (last.op = "withdraw" /\ LastAuthorized
       /\ (last.amount = 0 \/ last.target = Null)) =>
        /\ last.result \in InvalidArgument
        /\ Len(stack) = last.depth
        /\ balances = last.pre.balances
        /\ received = last.pre.received /\ custody = last.pre.custody

\* An authorized agent asked for a positive amount from the null account
\* while the ledger held balances.
C12_Witness ==
    /\ last.op = "withdraw"
    /\ last.target = Null /\ last.amount > 0
    /\ last.sender # owner /\ authorizedAgents[last.sender]
    /\ last.result = "Invalid account address"
    /\ Sum(balances) > 0

\* The positions of the records of one kind in a log.
RecordsOf(log, name) == {i \in 1..Len(log) : log[i].name = name}

\* C13: Withdrawal records are emitted only on success.  The number of
\* Withdrawal records in the log always equals the number of completed
\* withdraw calls; a withdraw that completes appends exactly one record,
\* carrying its account and amount; a withdraw that fails, and one whose
\* transfer is still in progress, leaves the log as it was when the call
\* was entered.
C13_WithdrawalRecords ==
    /\ Cardinality(RecordsOf(events, "Withdrawal")) = completed
    /\ last.op = "withdraw" =>
         /\ last.result = "ok" =>
               /\ events = Append(last.before.events,
                                  Event("Withdrawal", last.target, last.amount))
               /\ completed = last.before.completed + 1
         /\ last.result = "pending" =>
               (events = last.pre.events /\ completed = last.pre.completed)
         /\ LastFailed =>
               (events = last.pre.events /\ completed = last.pre.completed)

\* A transfer failed after a withdraw nested in it had completed and been
\* recorded; the log is back to what it was when the outer call was entered.
C13_Witness ==
    /\ last.op = "withdraw" /\ last.result \in TransferFailed
    /\ Len(last.before.events) > Len(last.pre.events)
    /\ last.before.events[Len(last.before.events)].name = "Withdrawal"
    /\ events = last.pre.events

\* C14: Idempotent authorization.  authorizeAgent by the owner for a
\* non-null agent succeeds whether or not the agent is already authorized
\* and leaves it authorized; on an agent that is already authorized it
\* changes nothing but the log, to which it appends AgentAuthorized(agent).
C14_IdempotentAuthorization ==
    (last.op = "authorizeAgent" /\ last.sender = last.pre.owner
       /\ last.target # Null) =>
        /\ last.result = "ok"
        /\ authorizedAgents[last.target]
        /\ events = Append(last.pre.events, Event("AgentAuthorized", last.target, 0))
        /\ last.pre.authorizedAgents[last.target] =>
              /\ authorizedAgents = last.pre.authorizedAgents
              /\ owner = last.pre.owner
              /\ balances = last.pre.balances
              /\ custody = last.pre.custody
              /\ received = last.pre.received

\* The owner has authorized the same agent twice in a row: the log is two
\* AgentAuthorized records for it.
C14_Witness ==
    /\ last.op = "authorizeAgent" /\ last.result = "ok"
    /\ last.pre.authorizedAgents[last.target]
    /\ events = << Event("AgentAuthorized", last.target, 0),
                   Event("AgentAuthorized", last.target, 0) >>
    /\ calls = 2

RECURSIVE LatestAgentRecord(_, _, _)
\* The kind of the latest AgentAuthorized / AgentDeauthorized record for x
\* among the first n records of a log; "none" if there is none.
LatestAgentRecord(log, n, x) ==
    IF n = 0 THEN "none"
    ELSE IF log[n].account = x
            /\ log[n].name \in {"AgentAuthorized", "AgentDeauthorized"}
         THEN log[n].name
         ELSE LatestAgentRecord(log, n - 1, x)

\* C16: deauthorizeAgent by the owner succeeds for every agent argument,
\* the null address and addresses never authorized included, leaves the
\* agent unauthorized and every other entry as it was, and appends
\* AgentDeauthorized(agent); and an address is an agent exactly when the
\* latest record of a successful authorizeAgent or deauthorizeAgent on it
\* is an AgentAuthorized.
C16_Deauthorize ==
    /\ (last.op = "deauthorizeAgent" /\ last.sender = last.pre.owner) =>
          /\ last.result = "ok"
          /\ authorizedAgents = [last.pre.authorizedAgents EXCEPT ![last.target] = FALSE]
          /\ events = Append(last.pre.events,
                             Event("AgentDeauthorized", last.target, 0))
    /\ \A x \in Addresses :
          authorizedAgents[x]
            <=> LatestAgentRecord(events, Len(events), x) = "AgentAuthorized"

\* The owner has deauthorized the null address while an agent, authorized
\* earlier, stays authorized.
C16_Witness ==
    /\ last.op = "deauthorizeAgent" /\ last.result = "ok"
    /\ last.target = Null
    /\ \E x \in Accounts : authorizedAgents[x]

\* C17: authorizeAgent by the owner with the null address fails as
\* InvalidArgument and leaves the agent set (and the rest of the ledger)
\* unchanged; the null address is never an agent.
C17_AuthorizeNull ==
    /\ (last.op = "authorizeAgent" /\ last.sender = last.pre.owner
          /\ last.target = Null) =>
          /\ last.result = "Invalid agent address"
          /\ last.result \in InvalidArgument
          /\ authorizedAgents = last.pre.authorizedAgents
          /\ SameLedger(Snapshot, last.pre)
    /\ ~authorizedAgents[Null]

\* The owner tried to authorize the null address while another agent was
\* authorized.
C17_Witness ==
    /\ last.op = "authorizeAgent" /\ last.target = Null
    /\ last.sender = owner
    /\ last.result \in InvalidArgument
    /\ \E x \in Accounts : authorizedAgents[x]

\* C18: transferOwnership by the owner to the null address fails as
\* InvalidArgument and leaves the owner unchanged.
C18_TransferToNull ==
    (last.op = "transferOwnership" /\ last.sender = last.pre.owner
       /\ last.target = Null) =>
        /\ last.result = "Invalid owner address"
        /\ last.result \in InvalidArgument
        /\ owner = last.pre.owner
        /\ formerOwners = last.pre.formerOwners

\* An owner that got ownership by transfer tried to hand it to the null
\* address.
C18_Witness ==
    /\ last.op = "transferOwnership" /\ last.target = Null
    /\ last.sender = owner /\ owner # Deployer
    /\ last.result \in InvalidArgument

\* C19: No partial mutation.  After a call that failed as Unauthorized,
\* InvalidArgument, InsufficientBalance or TransferFailed, the owner, every
\* balance, the agent set and the log (and the value held and delivered)
\* are what they were when the call was entered.
C19_NoPartialMutation ==
    (last.op # "constructor" /\ LastFailed) =>
        /\ owner = last.pre.owner
        /\ balances = last.pre.balances
        /\ authorizedAgents = last.pre.authorizedAgents
        /\ events = last.pre.events
        /\ custody = last.pre.custody
        /\ received = last.pre.received
        /\ Len(stack) = last.depth

\* A transfer failed after calls nested in it had changed the agent set
\* and the log.
C19_Witness ==
    /\ last.op = "withdraw" /\ last.result \in TransferFailed
    /\ last.before.authorizedAgents # last.pre.authorizedAgents
    /\ last.before.events # last.pre.events
    /\ authorizedAgents = last.pre.authorizedAgents

\* The funded ledger is a state the contract reaches from construction.
FundedReached ==
    /\ Snapshot = Funded
    /\ stack = <<>>
    /\ last.op = "deposit" /\ last.sender = Holder /\ last.pre = AfterAuthorize

\* C15: Immediate revocation, no cached authorization.  Whether a withdraw
\* is authorized depends only on the owner and the agent set as they are
\* when the call is entered: a caller that is not the owner and whose
\* latest agent record is an AgentDeauthorized fails as Unauthorized with
\* the ledger untouched, whatever it did before; a caller whose latest
\* agent record is an AgentAuthorized is not refused as Unauthorized.
C15_ImmediateRevocation ==
    last.op = "withdraw" =>
        LET latest == LatestAgentRecord(last.pre.events, Len(last.pre.events),
                                        last.sender)
        IN /\ (latest = "AgentDeauthorized" /\ last.sender # last.pre.owner) =>
                /\ last.result = "Not authorized"
                /\ SameLedger(Snapshot, last.pre)
                /\ Len(stack) = last.depth
           /\ latest = "AgentAuthorized" => last.result \notin Unauthorized

\* The agent completed a withdraw from the holder's account, the owner
\* then deauthorized it, and its next withdraw, which the balance would
\* have covered, was refused.
C15_Witness ==
    /\ last.op = "withdraw" /\ last.sender = Agent
    /\ last.result = "Not authorized"
    /\ events = << Event("AgentAuthorized", Agent, 0),
                   Event("Deposit", Holder, MaxAmount),
                   Event("Withdrawal", Holder, 1),
                   Event("AgentDeauthorized", Agent, 0) >>
    /\ calls = 3
    /\ last.target = Holder /\ last.amount = 1
    /\ balances[Holder] >= 1

\* The kind of an outcome.
KindOf(result) ==
    IF result = "ok" THEN "Success"
    ELSE IF result \in Unauthorized THEN "Unauthorized"
    ELSE IF result \in InvalidArgument THEN "InvalidArgument"
    ELSE IF result \in InsufficientBalance THEN "InsufficientBalance"
    ELSE IF result \in TransferFailed THEN "TransferFailed"
    ELSE "None"

\* What a withdraw t does to a ledger s when it runs alone, its transfer
\* succeeding or not.
AloneOutcome(s, t, ok) ==
    LET kind ==
          IF ~(t.sender = s.owner \/ s.authorizedAgents[t.sender]) THEN "Unauthorized"
          ELSE IF t.amount <= 0 \/ t.account = Null THEN "InvalidArgument"
          ELSE IF t.amount > s.balances[t.account] THEN "InsufficientBalance"
          ELSE IF ~ok THEN "TransferFailed"
          ELSE "Success"
    IN [kind |-> kind,
        owner |-> s.owner,
        authorizedAgents |-> s.authorizedAgents,
        balances |-> IF kind = "Success"
                     THEN [s.balances EXCEPT ![t.account] = @ - t.amount]
                     ELSE s.balances,
        received |-> IF kind = "Success"
                     THEN [s.received EXCEPT ![t.account] = @ + t.amount]
                     ELSE s.received]

\* The outcomes, balances and payouts are those of transaction i run alone
\* on the ledger in use and then transaction j run alone on the result.
InOrder(i, j) ==
    \E oki \in BOOLEAN, okj \in BOOLEAN :
        LET first == AloneOutcome(Funded, txs[i], oki)
            second == AloneOutcome(first, txs[j], okj)
        IN /\ KindOf(txs[i].result) = first.kind
           /\ KindOf(txs[j].result) = second.kind
           /\ balances = second.balances
           /\ received = second.received

BothMined == txs # <<>> /\ \A i \in TxIds : txs[i].status = "mined"

\* Both withdraws are by authorized callers, each for no more than the
\* account's balance, together for more than it.
Contended ==
    /\ txs # <<>>
    /\ \A i \in TxIds :
          /\ txs[i].sender = Funded.owner \/ Funded.authorizedAgents[txs[i].sender]
          /\ txs[i].account # Null
          /\ 0 < txs[i].amount
          /\ txs[i].amount <= Funded.balances[txs[i].account]
    /\ txs[1].amount + txs[2].amount > Funded.balances[txs[1].account]

Succeeded == {i \in DOMAIN txs : txs[i].result = "ok"}

\* C20 as stated: the outcome of two withdraws in flight together is that
\* of one of the two sequential orders, and of two contended withdraws
\* exactly one succeeds, the balance never negative.
C20_ExactlyOneSucceeds ==
    /\ BothMined => (InOrder(1, 2) \/ InOrder(2, 1))
    /\ \A a \in Addresses : balances[a] >= 0
    /\ (BothMined /\ Contended) => Cardinality(Succeeded) = 1

\* C20, amended: of two contended withdraws at most one succeeds, and
\* exactly one when neither transfer fails.
C20_Linearizable ==
    /\ BothMined => (InOrder(1, 2) \/ InOrder(2, 1))
    /\ \A a \in Addresses : balances[a] >= 0
    /\ Contended => Cardinality(Succeeded) <= 1
    /\ (BothMined /\ Contended
          /\ \A i \in TxIds : txs[i].result \notin TransferFailed)
         => /\ Cardinality(Succeeded) = 1
            /\ \E i \in TxIds : txs[i].result \in InsufficientBalance

\* Two contended withdraws of different amounts have both been mined: the
\* one mined first succeeded, the other found the balance insufficient.
C20_Witness ==
    /\ BothMined /\ Contended
    /\ txs[1].amount # txs[2].amount
    /\ txs[1].sender # txs[2].sender
    /\ \E i \in TxIds :
          /\ txs[i].result = "ok"
          /\ balances[txs[i].account]
               = Funded.balances[txs[i].account] - txs[i].amount
          /\ \E j \in TxIds : txs[j].result \in InsufficientBalance

\* C21: The owner is always authorized to withdraw.  A withdraw by the
\* owner of the moment is never rejected as Unauthorized, whatever the
\* agent table says about the owner.
C21_OwnerAlwaysAuthorized ==
    (last.op = "withdraw" /\ last.sender = last.pre.owner) =>
        last.result \notin Unauthorized

\* The owner deauthorized itself, is not in the agent table, and its
\* withdraw went through.
C21_Witness ==
    /\ last.op = "withdraw" /\ last.result = "ok"
    /\ last.sender = last.pre.owner
    /\ ~last.pre.authorizedAgents[last.sender]
    /\ LatestAgentRecord(last.pre.events, Len(last.pre.events), last.sender)
         = "AgentDeauthorized"

\* C22: Initial state.  Right after construction the owner is the
\* constructing identity, every balance reads 0 and no address reads as an
\* agent.
C22_InitialState ==
    last.op = "constructor" =>
        /\ getOwner = last.sender
        /\ \A a \in Addresses : getBalance(a) = 0
        /\ \A a \in Addresses : ~isAuthorizedAgent(a)

\* The ledger as the constructor leaves it: nothing called, nothing logged.
C22_Witness ==
    /\ last.op = "constructor"
    /\ getOwner = Deployer
    /\ calls = 0 /\ events = <<>> /\ custody = 0

StateChangingOps ==
    {"deposit", "withdraw", "authorizeAgent", "deauthorizeAgent",
     "transferOwnership"}

\* C23 as stated: every successful state-changing operation appends to the
\* log one record of it, naming the address it acted on.
C23_EveryOperationEmits ==
    (last.op \in StateChangingOps /\ last.result = "ok") =>
        /\ Len(events) = Len(last.before.events) + 1
        /\ events[Len(events)].account = last.target

IsPrefix(s, t) == Len(s) <= Len(t) /\ SubSeq(t, 1, Len(s)) = s

\* The records of calls that have committed: those of a transaction still
\* running are not part of it until its outermost call has returned.
CommittedLog == IF stack = <<>> THEN events ELSE stack[1].pre.events

\* The record a successful operation emits.
RecordOf(op, target, amount) ==
    CASE op = "deposit" -> Event("Deposit", target, amount)
      [] op = "withdraw" -> Event("Withdrawal", target, amount)
      [] op = "authorizeAgent" -> Event("AgentAuthorized", target, 0)
      [] op = "deauthorizeAgent" -> Event("AgentDeauthorized", target, 0)

\* What the requires of a call decide, read off the storage s alone: owner,
\* agent table and balances, never the log.
DecidedByStorage(op, sender, target, amount, s) ==
    CASE op = "authorizeAgent" ->
            IF sender # s.owner THEN "Only owner can call this function"
            ELSE IF target = Null THEN "Invalid agent address" ELSE "ok"
      [] op = "deauthorizeAgent" ->
            IF sender # s.owner THEN "Only owner can call this function" ELSE "ok"
      [] op = "transferOwnership" ->
            IF sender # s.owner THEN "Only owner can call this function"
            ELSE IF target = Null THEN "Invalid owner address" ELSE "ok"
      [] op = "deposit" ->
            IF amount <= 0 THEN "Amount must be greater than 0"
            ELSE IF target = Null THEN "Invalid account address" ELSE "ok"
      [] op = "withdraw" ->
            IF ~(sender = s.owner \/ s.authorizedAgents[sender]) THEN "Not authorized"
            ELSE IF amount <= 0 THEN "Amount must be greater than 0"
            ELSE IF target = Null THEN "Invalid account address"
            ELSE IF s.balances[target] < amount THEN "Insufficient balance"
            ELSE "pending"

\* One step of the log: the committed log only grows; within a running
\* transaction the log grows by at most one record per step, the record of
\* the operation that just succeeded, and only a revert takes records away,
\* exactly those added since the reverted call was entered; what the
\* requires of a call decide is the same whatever the log holds.
LogStep ==
    /\ IsPrefix(CommittedLog, CommittedLog')
    /\ IF last'.result = "Transfer failed"
       THEN events' = last'.pre.events /\ IsPrefix(events', events)
       ELSE /\ IsPrefix(events, events')
            /\ Len(events') <= Len(events) + 1
    /\ Len(events') = Len(events) + 1 =>
          /\ last'.result = "ok"
          /\ events'[Len(events')] = RecordOf(last'.op, last'.target, last'.amount)
    /\ (Len(stack') >= Len(stack) /\ last'.op # "constructor") =>
          last'.result = DecidedByStorage(last'.op, last'.sender, last'.target,
                                          last'.amount, last'.pre)

\* C24: The event log is append-only and ordered, and no operation's
\* outcome depends on its contents.
C24_AppendOnlyLog == [][LogStep]_vars

\* A failed transfer has reverted a withdraw inside which a record was
\* added: that record is gone, the records committed before are all there.
C24_Witness ==
    /\ stack = <<>>
    /\ last.op = "withdraw" /\ last.result = "Transfer failed"
    /\ Len(last.before.events) > Len(events)
    /\ Len(events) > 0
    /\ events = last.pre.events

\* One step of the owner: it is always one non-null address; it changes
\* only in a successful transferOwnership called by the owner of the
\* moment, to the address named, or back to what it was when a withdraw
\* was entered whose transfer failed (undoing what ran inside it); every
\* failed call leaves the owner it found, and deposit, authorizeAgent,
\* deauthorizeAgent and a completing withdraw do not touch it.
OwnerStep ==
    /\ owner' \in Accounts
    /\ owner' # owner =>
          \/ /\ last'.op = "transferOwnership" /\ last'.result = "ok"
             /\ last'.sender = owner
             /\ last'.target = owner'
          \/ /\ last'.op = "withdraw" /\ last'.result = "Transfer failed"
             /\ owner' = last'.pre.owner
    /\ last'.result \notin {"ok", "pending"} => owner' = last'.pre.owner
    /\ (last'.op \in {"deposit", "authorizeAgent", "deauthorizeAgent"}
          \/ (last'.op = "withdraw" /\ last'.result \in {"ok", "pending"}))
         => owner' = owner

\* C29: The owner changes only through a successful transferOwnership
\* issued by the current owner, and there is exactly one owner in every
\* reachable state.
C29_OwnerChanges == [][OwnerStep]_vars

\* Inside a withdraw the owner handed ownership over; the transfer then
\* failed and ownership is back where it was when the withdraw was entered.
C29_Witness ==
    /\ last.op = "withdraw" /\ last.result = "Transfer failed"
    /\ last.before.owner # owner
    /\ owner = last.pre.owner
    /\ last.sender # last.pre.owner

\* The x-api-key header is missing or is not the configured key.
BadKey == req.key = "" \/ req.key # apiKey

Responded == req.stage = "responded"

CoreFailed == req.core \notin {"none", "ok", "pending"}

\* C26 as stated: a core failure of kind Unauthorized is answered with a
\* rejection, InvalidArgument and InsufficientBalance with a 4xx,
\* TransferFailed with a 5xx, and a failed core call never with a success.
C26_ErrorTranslation ==
    (Responded /\ CoreFailed) =>
        /\ req.status # 200
        /\ req.core \in Unauthorized => req.status >= 400
        /\ req.core \in InvalidArgument \cup InsufficientBalance =>
              (400 <= req.status /\ req.status < 500)
        /\ req.core \in TransferFailed =>
              (500 <= req.status /\ req.status < 600)

\* A POST request is answered with success only when its transaction was
\* submitted, mined without reverting and waited for; a request whose
\* submission or confirmation failed is answered with an error; no request
\* is answered twice.
AwaitedBeforeAnswer ==
    /\ req.responses <= 1
    /\ Responded <=> req.responses = 1
    /\ (Responded /\ req.endpoint \in WriteEndpoints /\ req.status = 200) =>
          /\ req.calls = 2
          /\ req.core = "ok"
          /\ stack = <<>>
          /\ last.result = "ok" /\ last.sender = req.sender
          /\ last.target = req.address.addr
    /\ (Responded /\ req.endpoint \in WriteEndpoints /\ req.calls >= 1
          /\ (req.code # "none" \/ CoreFailed)) =>
          req.status >= 400

Missing(v) == v.kind = "undefined"

\* The amount is zero or negative, as a number or spelled out.
ZeroOrNegative(v) ==
    \/ v.kind = "number" /\ v.n <= 0
    \/ v.kind = "string" /\ v.chars \in {<<"0">>, <<"-", "1">>}

\* C28 as stated: with a valid key, a deposit or withdraw request is
\* answered 400 'Address and amount are required' when address or amount
\* is missing, 400 'Invalid Ethereum address' when the address is
\* malformed, and 400 'Amount must be a positive number' when the amount is
\* zero or negative; no contract call is made in any of these cases.
C28_RequestValidation ==
    (Responded /\ ~BadKey /\ req.endpoint \in AmountEndpoints) =>
        /\ (Missing(req.address) \/ Missing(req.amount)) =>
              /\ req.status = 400
              /\ req.error = "Address and amount are required"
              /\ req.calls = 0
        /\ (~Missing(req.amount) /\ req.address.kind = "string") =>
              /\ req.status = 400
              /\ req.error = "Invalid Ethereum address"
              /\ req.calls = 0
        /\ (req.address.kind = "address" /\ ZeroOrNegative(req.amount)) =>
              /\ req.status = 400
              /\ req.error = "Amount must be a positive number"
              /\ req.calls = 0

\* The wallet's role does not allow the call the endpoint makes.
RoleRefused ==
    \/ req.endpoint = "withdraw" /\ req.role = "Unauthorized"
    \/ req.endpoint \in AgentEndpoints /\ req.role # "Owner"

\* C30: Caller identity at the façade.  Every contract call made for a
\* request is issued as the configured wallet, whichever client sent the
\* request, and the contract refuses it as Unauthorized exactly when the
\* wallet's role does not allow the call: the decision is a function of the
\* endpoint and the wallet's role, the same for every client.
C30_CallerIdentity ==
    /\ req.sender \in {Null, wallet}
    /\ (req.endpoint \in WriteEndpoints /\ req.calls >= 1) => req.sender = wallet
    /\ req.stage \in {"running", "mined"} => last.sender = wallet
    /\ req.core # "none" => (req.core \in Unauthorized <=> RoleRefused)

\* The second client's withdraw request went through a server whose
\* wallet is an authorized agent: the contract saw the wallet, not the
\* client, and paid out.
C30_Witness ==
    /\ Responded /\ req.status = 200
    /\ req.endpoint = "withdraw"
    /\ req.client = 2
    /\ wallet = Agent /\ req.role = "Agent"
    /\ last.op = "withdraw" /\ last.sender = wallet /\ last.result = "ok"

\* C31: Withdraw error precedence.  withdraw checks authorization, then
\* amount > 0, then the account against the null address, then the balance:
\* an unauthorized caller is refused as not authorized whatever it passes,
\* an authorized caller passing amount 0 is refused for the amount whatever
\* the account (null, or holding nothing), and the balance is looked at
\* only once the three checks before it have passed.
C31_ErrorPrecedence ==
    last.op = "withdraw" =>
        /\ ~LastAuthorized => last.result = "Not authorized"
        /\ (LastAuthorized /\ last.amount = 0) =>
               /\ last.result = "Amount must be greater than 0"
               /\ last.result \in InvalidArgument
               /\ last.result \notin InsufficientBalance
        /\ (LastAuthorized /\ last.amount > 0 /\ last.target = Null) =>
               last.result = "Invalid account address"
        /\ last.result \in InsufficientBalance =>
               /\ LastAuthorized /\ last.amount > 0 /\ last.target # Null
               /\ last.amount > last.pre.balances[last.target]

\* An authorized caller asked for amount 0 from the null account while
\* another account held value, and was refused for the amount.
C31_Witness ==
    /\ last.op = "withdraw"
    /\ LastAuthorized
    /\ last.amount = 0 /\ last.target = Null
    /\ last.result = "Amount must be greater than 0"
    /\ \E a \in Accounts : balances[a] > 0

\* C32: Per-account conservation.  For every account, the value deposited
\* to it equals its balance plus the value the contract has delivered to
\* that very address; once no transfer is in progress the value delivered
\* is the value of its completed withdrawals.  Whoever triggers a
\* withdraw, nothing credited to one account reaches another address.
C32_PerAccountConservation ==
    /\ \A a \in Addresses : deposited[a] = balances[a] + received[a]
    /\ stack = <<>> => \A a \in Addresses : received[a] = withdrawn[a]
    /\ (last.op = "withdraw" /\ last.result = "pending") =>
           /\ received[last.target] = last.before.received[last.target] + last.amount
           /\ balances[last.target] = last.before.balances[last.target] - last.amount
           /\ \A b \in Addresses \ {last.target} :
                  /\ received[b] = last.before.received[b]
                  /\ balances[b] = last.before.balances[b]

\* Two accounts hold deposits; an agent that is neither of them withdrew
\* from one, and the value reached that account and no other address.
C32_Witness ==
    /\ stack = <<>>
    /\ last.op = "withdraw" /\ last.result = "ok"
    /\ last.sender # last.target /\ last.sender # owner
    /\ received[last.target] = last.amount
    /\ \E b \in Accounts \ {last.target} :
           /\ deposited[b] > 0 /\ balances[b] = deposited[b]
    /\ \A b \in Addresses \ {last.target} : received[b] = 0

\* C33: Solvency.  In every reachable state, the states a recipient sees
\* while a transfer to it is in progress included, the value the contract
\* holds is at least the sum of all balances, and the amount of a
\* withdraw that passed the balance check was held by the contract when
\* the call was entered.
C33_Solvency ==
    /\ custody >= Sum(balances)
    /\ custody >= 0
    /\ (last.op = "withdraw" /\ last.result \in {"pending", "ok"}) =>
           /\ last.amount <= last.pre.balances[last.target]
           /\ last.amount <= last.pre.custody

\* A transfer is in progress while other balances remain recorded, and
\* the contract holds their sum.
C33_Witness ==
    /\ stack # <<>>
    /\ last.op = "withdraw" /\ last.result = "pending"
    /\ Sum(balances) > 0
    /\ custody = Sum(balances)

\* C34: Rollback covers re-entrant effects.  When the transfer of a
\* withdraw is reported as failed, whatever the recipient had done during
\* the transfer (withdraws that completed, deposits, changes of agents or
\* of the owner) is undone together with the decrement of the failed call:
\* the ledger and the record of what was committed are those of the entry
\* to the failed call, and the log holds none of the nested calls' events.
C34_RollbackCoversReentrant ==
    (last.op = "withdraw" /\ last.result \in TransferFailed) =>
        /\ Snapshot = last.pre
        /\ Len(events) = Len(last.pre.events)
        /\ completed = last.pre.completed
        /\ deposited = last.pre.deposited
        /\ withdrawn = last.pre.withdrawn
        /\ formerOwners = last.pre.formerOwners
        /\ \A a \in Addresses : isAuthorizedAgent(a) = last.pre.authorizedAgents[a]
        /\ getOwner = last.pre.owner

\* The transfer of an outermost withdraw failed after a withdraw nested in
\* it had completed and logged its event.
C34_Witness ==
    /\ last.op = "withdraw" /\ last.result \in TransferFailed
    /\ last.depth = 0
    /\ last.before.completed > last.pre.completed
    /\ Len(last.before.events) > Len(last.pre.events)
    /\ last.before.balances[last.target] < last.pre.balances[last.target] - last.amount

\* What a step may do to the agent set, and whom a change of owner leaves
\* authorized.
AgentStep ==
    /\ last'.op \in {"transferOwnership", "deposit"} =>
           authorizedAgents' = authorizedAgents
    /\ (last'.op = "withdraw" /\ last'.result \notin TransferFailed) =>
           authorizedAgents' = authorizedAgents
    /\ (last'.op = "withdraw" /\ last'.result \in TransferFailed) =>
           authorizedAgents' = last'.pre.authorizedAgents
    /\ (last'.op = "transferOwnership" /\ last'.result = "ok") =>
           \A x \in Accounts :
               /\ authorizedAgents[x] => (onlyAuthorized(x))'
               /\ (x = last'.sender /\ x # owner') =>
                      ((onlyAuthorized(x))' <=> authorizedAgents[x])
    /\ (last'.op = "withdraw" /\ last'.sender # last'.pre.owner) =>
           (last'.result \in Unauthorized
                <=> ~last'.pre.authorizedAgents[last'.sender])

\* C35: Agent status is independent of ownership.  transferOwnership
\* leaves the agent set as it was, so every agent passes the withdraw check
\* under the new owner, and the address that handed ownership over passes
\* it exactly when it is in the agent set; deposit and withdraw never
\* change the agent set (a failed transfer puts it back to what it was on
\* entry).
C35_AgentsIndependentOfOwner == [][AgentStep]_vars

\* After ownership had been handed over, the previous owner, listed as an
\* agent, withdrew from another account under the new owner.
C35_Witness ==
    /\ last.op = "withdraw" /\ last.result = "ok"
    /\ last.sender \in last.pre.formerOwners
    /\ last.sender # last.pre.owner
    /\ last.pre.authorizedAgents[last.sender]
    /\ last.target # last.sender
    /\ owner = last.pre.owner

\* C36: The owner is never the null address.  Constructed by a non-null
\* address, the contract has a non-null owner in every reachable state:
\* some caller passes the owner check, and a transfer of ownership to the
\* null address is refused and leaves the owner in place.
C36_OwnerNeverNull ==
    /\ getOwner # Null
    /\ getOwner \in Accounts
    /\ \E s \in Accounts : onlyOwner(s)
    /\ (last.op = "transferOwnership" /\ last.target = Null) =>
           /\ last.result # "ok"
           /\ owner = last.before.owner

\* An owner that had received ownership from the deployer tried to hand
\* it to the null address and was refused.
C36_Witness ==
    /\ last.op = "transferOwnership" /\ last.target = Null
    /\ last.sender = last.pre.owner
    /\ last.result = "Invalid owner address"
    /\ owner # Deployer /\ Deployer \in formerOwners

\* What a step may do to the balances.
BalanceStep ==
    /\ \A a \in Addresses :
           balances'[a] # balances[a] =>
               \/ /\ last'.op = "deposit" /\ last'.result = "ok"
                  /\ a = last'.target
                  /\ balances'[a] = balances[a] + last'.amount
               \/ /\ last'.op = "withdraw" /\ last'.result = "pending"
                  /\ a = last'.target
                  /\ balances'[a] = balances[a] - last'.amount
               \/ /\ last'.op = "withdraw" /\ last'.result \in TransferFailed
                  /\ balances'[a] = last'.pre.balances[a]
    /\ last'.op \in OwnerOnlyOps => balances' = balances
    /\ balances'[Null] = 0

\* C37: Balances change only through deposit and withdraw, and only for
\* the account named in the call.  A step changes a balance only as the
\* credit of a successful deposit to the named account, as the decrement of
\* a withdraw from the named account, or as the undoing of a withdraw whose
\* transfer failed (which puts every balance back to its value on entry);
\* authorizeAgent, deauthorizeAgent and transferOwnership change none, and
\* the null address's balance is always 0.
C37_BalanceFrame == [][BalanceStep]_vars

\* A failed transfer put back the balance of an account other than the
\* one withdrawn from, changed by a call nested in the transfer.
C37_Witness ==
    /\ last.op = "withdraw" /\ last.result \in TransferFailed
    /\ \E a \in Accounts \ {last.target} :
           /\ last.before.balances[a] # balances[a]
           /\ balances[a] = last.pre.balances[a]
    /\ balances[Null] = 0

\* The outcomes a withdraw call can end with.
WithdrawOutcomes ==
    {"Success", "Unauthorized", "InvalidArgument", "InsufficientBalance",
     "TransferFailed"}

\* What a step of a withdraw call does: a refusal ends the call before any
\* transfer; value is sent only by the step that passed the requires, once,
\* to the account named; the return of the transfer ends the call with
\* success or failure and sends nothing more.
WithdrawStep ==
    /\ (last'.op = "withdraw" /\ last'.result # "pending") =>
           KindOf(last'.result) \in WithdrawOutcomes
    /\ (last'.op = "withdraw" /\ last'.result \in
            (Unauthorized \cup InvalidArgument \cup InsufficientBalance)) =>
           /\ stack' = stack
           /\ received' = received
    /\ (\E a \in Addresses : received'[a] > received[a]) =>
           /\ last'.op = "withdraw" /\ last'.result = "pending"
           /\ received' = [received EXCEPT ![last'.target] = @ + last'.amount]
           /\ Len(stack') = Len(stack) + 1
           /\ calls' = calls + 1
    /\ (last'.op = "withdraw" /\ last'.result \in ({"ok"} \cup TransferFailed)) =>
           /\ stack # <<>>
           /\ stack' = Pop
           /\ calls' = calls
           /\ \A a \in Addresses : received'[a] <= received[a]
           /\ last'.result = "ok" => received' = received

\* C38: Every withdraw call terminates with exactly one outcome.  Provided
\* the external transfer returns, a withdraw in progress (at any depth)
\* eventually ends; a call ends as success, Unauthorized, InvalidArgument,
\* InsufficientBalance or TransferFailed; it sends value at most once, and
\* the step that ends it after a failed transfer sends nothing again.
C38_WithdrawTerminates ==
    /\ [][WithdrawStep]_vars
    /\ \A d \in 1..MaxDepth : (Len(stack) >= d) ~> (Len(stack) < d)

\* The transfer of a withdraw returned as failed and the call ended: the
\* one transfer made for it has been undone and no call is in progress.
C38_Witness ==
    /\ last.op = "withdraw" /\ last.result \in TransferFailed
    /\ stack = <<>>
    /\ last.before.received[last.target]
           >= last.pre.received[last.target] + last.amount
    /\ received = last.pre.received

====
